---- MODULE Spec2Model ----
(***************************************************************************)
(* Model of the authentication flow of miro-api:                           *)
(*   app/api/v1/controllers/auth/auth_controller.py  (create_user,         *)
(*       login_for_access_token, authenticate_user, create_access_token,   *)
(*       get_current_user, _store_token, _store_refresh_token)             *)
(*   app/models/user.py  (the User table and its unique columns)           *)
(*   app/core/config.py  (Settings)                                        *)
(*                                                                         *)
(* The Credential Store is a relational table with transactions: rows a    *)
(* transaction has inserted but not committed are in `pending`, committed  *)
(* rows are in `users`.  The Token Cache is a key-value store with         *)
(* per-key expiry.  Every request is a process whose position is req[r].pc *)
(* and which takes one step per call to the store or the cache, so that    *)
(* requests served by different workers interleave at those calls.         *)
(* Time is counted in ticks, TicksPerSecond of them to a second, because   *)
(* the token codec truncates datetimes to whole seconds.                   *)
(***************************************************************************)
EXTENDS Integers, FiniteSets, Sequences, TLC

VARIABLES users, pending, cache, now, nticks, req, last

vars == <<users, pending, cache, now, nticks, req, last>>

----------------------------------------------------------------------------
(* Bounds of the model *)

MaxReq == 3
MaxTicks == 2
TicksPerSecond == 2

Usernames == {"alice123", "bob45678"}
Emails == {"a@x.com", "b@x.com"}
Passwords == {"secretpw1", "secretpw2"}

\* the password each username registers with
ChosenPassword(username) ==
    IF username = "alice123" THEN "secretpw1" ELSE "secretpw2"

Slots == 1..MaxReq

----------------------------------------------------------------------------
(* Settings (app/core/config.py) *)

SECRET_KEY == "SECRET_KEY"
OTHER_KEY == "OTHER_KEY"
ACCESS_TOKEN_EXPIRE_MINUTES == 60 * 24 * 8
REFRESH_TOKEN_EXPIRE_DAYS == 30

\* timedelta(minutes=m) and timedelta(days=d), in seconds
timedelta_minutes(m) == m * 60
timedelta_days(d) == d * 86400

\* calendar.timegm(dt.utctimetuple()): a datetime (in ticks) as whole seconds
timegm(t) == t \div TicksPerSecond

----------------------------------------------------------------------------
(* Password Hasher: bcrypt_context.hash / bcrypt_context.verify *)

bcrypt_hash(password, salt) ==
    [scheme |-> "bcrypt", salt |-> salt, digest |-> <<salt, password>>]

bcrypt_verify(password, hashed) ==
    hashed.digest = <<hashed.salt, password>>

----------------------------------------------------------------------------
(* Credential Store: the User table *)

\* str(user.id)
uuid_str(id) == <<"uuid", id>>

\* UniqueViolation with the email column not declared unique
UniqueViolationUsernameOnly(row, rows) ==
    \E u \in rows : \/ u.id = row.id
                    \/ u.username = row.username

\* The columns declared unique=True (and the primary key): an INSERT of
\* `row` raises IntegrityError when a row of `rows` has one of them.
UniqueViolation(row, rows) ==
    \E u \in rows : \/ u.id = row.id
                    \/ u.username = row.username
                    \/ u.email = row.email

Committed(row) == [id |-> row.id, username |-> row.username,
                   email |-> row.email, password |-> row.password]

\* database.query(User).filter(User.username == username).first()
QueryByUsername(username) == {u \in users : u.username = username}

----------------------------------------------------------------------------
(* Token Codec: jose.jwt *)

NoClaims == [c \in {} |-> 0]
NoToken == [claims |-> NoClaims, key |-> ""]

\* jwt.encode: a datetime claim becomes whole seconds; the signature binds
\* the claims to the key.
jwt_encode(claims, key) ==
    [claims |-> [claims EXCEPT !.exp = timegm(@)], key |-> key]

\* jwt_decode with exp validated before the signature
jwt_decode_exp_first(token, key, t) ==
    IF "exp" \in DOMAIN token.claims /\ token.claims.exp < timegm(t)
    THEN [error |-> "ExpiredSignatureError", payload |-> NoClaims]
    ELSE IF token.key # key
    THEN [error |-> "JWTError", payload |-> NoClaims]
    ELSE [error |-> "", payload |-> token.claims]

\* jwt.decode: the signature is verified first (JWTError), then exp
\* (ExpiredSignatureError when exp < now, in whole seconds).
jwt_decode(token, key, t) ==
    IF token.key # key
    THEN [error |-> "JWTError", payload |-> NoClaims]
    ELSE IF "exp" \in DOMAIN token.claims /\ token.claims.exp < timegm(t)
    THEN [error |-> "ExpiredSignatureError", payload |-> NoClaims]
    ELSE [error |-> "", payload |-> token.claims]

\* create_access_token with expires_delta left out of exp
create_access_token_no_delta(username, uuid, expires_delta, t) ==
    jwt_encode([sub |-> username, id |-> uuid, exp |-> t], SECRET_KEY)

\* expires = datetime.utcnow() + expires_delta, at time t
create_access_token(username, uuid, expires_delta, t) ==
    jwt_encode([sub |-> username, id |-> uuid,
                exp |-> t + expires_delta * TicksPerSecond], SECRET_KEY)

----------------------------------------------------------------------------
(* Token Cache: redis *)

access_key(user_id) == <<"access_token", user_id>>
refresh_key(user_id) == <<"refresh_token", user_id>>

\* redis_set that adds the value and keeps what the key held
redis_set_keeps_old(c, key, value, ex, t, by) ==
    c \cup {[key |-> key, value |-> value, ex |-> ex,
             expireAt |-> t + ex * TicksPerSecond, by |-> by]}

\* redis.set(key, value, ex=timedelta): replaces the key's value and expiry.
\* `by` records the request that wrote the entry.
redis_set(c, key, value, ex, t, by) ==
    {e \in c : e.key # key}
        \cup {[key |-> key, value |-> value, ex |-> ex,
               expireAt |-> t + ex * TicksPerSecond, by |-> by]}

\* the entries still alive at time t
Alive(c, t) == {e \in c : e.expireAt > t}

----------------------------------------------------------------------------
(* Requests *)

Idle == [kind |-> "idle", pc |-> "idle",
         username |-> "", password |-> "", email |-> "",
         user_id |-> 0, token |-> NoToken, refresh_token |-> NoToken,
         access_token_expires |-> 0, refresh_token_expires |-> 0,
         issued_at |-> 0, failed |-> "",
         status |-> 0, detail |-> "", access_token |-> NoToken,
         before |-> {}]

Started == Cardinality({r \in Slots : req[r].kind # "idle"})
Done == {r \in Slots : req[r].pc = "done"}

\* the logins of user `id` that have returned 200
LoggedIn(id) == {q \in Done : /\ req[q].kind = "login"
                              /\ req[q].status = 200
                              /\ req[q].user_id = id}

NoVerification == [token |-> NoToken, at |-> 0, status |-> 0, detail |-> "",
                   user |-> NoClaims, cached |-> ""]

Init ==
    /\ users = {}
    /\ pending = {}
    /\ cache = {}
    /\ now = 0
    /\ nticks = 0
    /\ req = [r \in Slots |-> Idle]
    /\ last = NoVerification

----------------------------------------------------------------------------
(* create_user *)

\* NewRow with the submitted password put in the column as it came: no
\* scheme, no salt
NewRowPlaintext(r, username, password, email) ==
    [id |-> r, username |-> username, email |-> email,
     password |-> [scheme |-> "", salt |-> 0, digest |-> <<0, password>>],
     by |-> r]

\* User(username=..., password=bcrypt_context.hash(password), email=...):
\* the row of request r, with the id and the salt drawn for it
NewRow(r, username, password, email) ==
    [id |-> r, username |-> username, email |-> email,
     password |-> bcrypt_hash(password, r), by |-> r]

\* The request arrives: the User object is built, its password hashed, and
\* pdb.add puts it in the session.
CreateUserBegin(r, username, password, email) ==
    /\ req[r].kind = "idle"
    /\ r = Started + 1
    /\ req' = [req EXCEPT ![r] =
          [Idle EXCEPT !.kind = "create_user", !.pc = "insert",
                       !.username = username, !.password = password,
                       !.email = email]]
    /\ UNCHANGED <<users, pending, cache, now, nticks, last>>

\* The INSERT of pdb.commit().  A duplicate of a committed row raises
\* IntegrityError (400); a duplicate of another transaction's uncommitted
\* row makes the INSERT wait until that transaction has ended.
CreateUserInsert(r) ==
    LET row == NewRow(r, req[r].username, req[r].password, req[r].email)
    IN  /\ req[r].kind = "create_user"
        /\ req[r].pc = "insert"
        /\ ~UniqueViolation(row, pending)
        /\ IF UniqueViolation(row, users)
           THEN /\ req' = [req EXCEPT ![r].pc = "done", ![r].status = 400,
                                      ![r].detail = "User already exists"]
                /\ UNCHANGED pending
           ELSE /\ req' = [req EXCEPT ![r].pc = "commit"]
                /\ pending' = pending \cup {row}
        /\ UNCHANGED <<users, cache, now, nticks, last>>

\* the COMMIT of pdb.commit() succeeds
CreateUserCommit(r) ==
    /\ req[r].kind = "create_user"
    /\ req[r].pc = "commit"
    /\ users' = users \cup {Committed(row) : row \in {p \in pending : p.by = r}}
    /\ pending' = {p \in pending : p.by # r}
    /\ req' = [req EXCEPT ![r].pc = "done", ![r].status = 201,
                          ![r].detail = "User created successfully"]
    /\ UNCHANGED <<cache, now, nticks, last>>

\* CreateUserError with the failed transaction's row left in the table
CreateUserErrorNoRollback(r) ==
    /\ req[r].kind = "create_user"
    /\ req[r].pc = "commit"
    /\ users' = users \cup {Committed(row) : row \in {p \in pending : p.by = r}}
    /\ pending' = {p \in pending : p.by # r}
    /\ req' = [req EXCEPT ![r].pc = "done", ![r].failed = "db",
                          ![r].status = 500,
                          ![r].detail = "Internal server error"]
    /\ UNCHANGED <<cache, now, nticks, last>>

\* pdb.commit() raises something other than IntegrityError; get_db closes
\* the session, which rolls the transaction back.
CreateUserError(r) ==
    /\ req[r].kind = "create_user"
    /\ req[r].pc = "commit"
    /\ pending' = {p \in pending : p.by # r}
    /\ req' = [req EXCEPT ![r].pc = "done", ![r].failed = "db",
                          ![r].status = 500,
                          ![r].detail = "Internal server error"]
    /\ UNCHANGED <<users, cache, now, nticks, last>>

----------------------------------------------------------------------------
(* login_for_access_token *)

HTTPException(status, detail) ==
    [type |-> "HTTPException", status |-> status, detail |-> detail]
Raised(type) == [type |-> type, status |-> 0, detail |-> ""]

\* The except clause of _store_token and of _store_refresh_token names
\* redis.exceptions.RedisError, where `redis` is the function's parameter,
\* the Redis client: evaluating it raises AttributeError in place of the
\* error redis.set raised, and the HTTPException(500) of its body is never
\* built.
store_except(exc) == Raised("AttributeError")

\* the except clauses of login_for_access_token: the response to each
\* exception raised in its body
login_except(exc) ==
    IF exc.type = "HTTPException"
    THEN [status |-> exc.status, detail |-> exc.detail]
    ELSE IF exc.type = "JWTError"
    THEN [status |-> 401, detail |-> "JWT error"]
    ELSE [status |-> 500, detail |-> "Internal server error"]

\* authenticate_user without the bcrypt_context.verify test
authenticate_user_no_verify(username, password, db_ok) ==
    LET found == QueryByUsername(username)
    IN  IF ~db_ok \/ found = {}
        THEN [ok |-> FALSE, user |-> NoClaims, exc |-> Raised("")]
        ELSE [ok |-> TRUE, user |-> CHOOSE u \in found : TRUE,
              exc |-> Raised("")]

\* authenticate_user with the 404 of a missing user let through
authenticate_user_raises_404(username, password, db_ok) ==
    LET found == QueryByUsername(username)
        user == CHOOSE u \in found : TRUE
        no == [ok |-> FALSE, user |-> NoClaims, exc |-> Raised("")]
    IN  IF ~db_ok THEN no
        ELSE IF found = {}
        THEN [ok |-> FALSE, user |-> NoClaims,
              exc |-> HTTPException(404, "User not found")]
        ELSE IF ~bcrypt_verify(password, user.password) THEN no
        ELSE [ok |-> TRUE, user |-> user, exc |-> Raised("")]

\* authenticate_user.  `db_ok` is FALSE when the query raises.  Whatever
\* its body raises, the 404 for a missing user included, is caught by its
\* own `except Exception` and becomes the return value False; `exc` is what
\* it lets through to the caller, which is nothing.
authenticate_user(username, password, db_ok) ==
    LET found == QueryByUsername(username)
        user == CHOOSE u \in found : TRUE
        no == [ok |-> FALSE, user |-> NoClaims, exc |-> Raised("")]
    IN  IF ~db_ok THEN no
        ELSE IF found = {} THEN no
        ELSE IF ~bcrypt_verify(password, user.password) THEN no
        ELSE [ok |-> TRUE, user |-> user, exc |-> Raised("")]

\* The request arrives: authenticate_user, then either the 401 or the two
\* tokens are minted.
LoginAuthenticate(r, username, password, db_ok) ==
    LET auth == authenticate_user(username, password, db_ok)
        base == [Idle EXCEPT !.kind = "login", !.username = username,
                             !.password = password,
                             !.failed = IF db_ok THEN "" ELSE "db"]
        exc == IF auth.exc.type # "" THEN auth.exc
               ELSE HTTPException(401, "Incorrect username or password")
        access_token_expires == timedelta_minutes(ACCESS_TOKEN_EXPIRE_MINUTES)
        refresh_token_expires == timedelta_days(REFRESH_TOKEN_EXPIRE_DAYS)
    IN  /\ req[r].kind = "idle"
        /\ r = Started + 1
        /\ IF auth.exc.type # "" \/ ~auth.ok
           THEN req' = [req EXCEPT ![r] =
                    [base EXCEPT !.pc = "done",
                                 !.status = login_except(exc).status,
                                 !.detail = login_except(exc).detail]]
           ELSE req' = [req EXCEPT ![r] =
                    [base EXCEPT
                       !.pc = "store_access",
                       !.user_id = auth.user.id,
                       !.before = LoggedIn(auth.user.id),
                       !.issued_at = now,
                       !.access_token_expires = access_token_expires,
                       !.refresh_token_expires = refresh_token_expires,
                       !.token = create_access_token(auth.user.username,
                                    uuid_str(auth.user.id),
                                    access_token_expires, now),
                       !.refresh_token = create_access_token(auth.user.username,
                                    uuid_str(auth.user.id),
                                    refresh_token_expires, now)]]
        /\ UNCHANGED <<users, pending, cache, now, nticks, last>>

\* LoginStoreAccess with the lifetime's number of minutes given as seconds
LoginStoreAccessMinutesAsSeconds(r) ==
    /\ req[r].kind = "login"
    /\ req[r].pc = "store_access"
    /\ cache' = redis_set(cache, access_key(uuid_str(req[r].user_id)),
                          req[r].token, ACCESS_TOKEN_EXPIRE_MINUTES, now, r)
    /\ req' = [req EXCEPT ![r].pc = "store_refresh"]
    /\ UNCHANGED <<users, pending, now, nticks, last>>

\* _store_token: redis.set succeeds
LoginStoreAccess(r) ==
    /\ req[r].kind = "login"
    /\ req[r].pc = "store_access"
    /\ cache' = redis_set(cache, access_key(uuid_str(req[r].user_id)),
                          req[r].token, req[r].access_token_expires, now, r)
    /\ req' = [req EXCEPT ![r].pc = "store_refresh"]
    /\ UNCHANGED <<users, pending, now, nticks, last>>

\* _store_token: redis.set raises
LoginStoreAccessError(r) ==
    LET response == login_except(store_except(Raised("RedisError")))
    IN  /\ req[r].kind = "login"
        /\ req[r].pc = "store_access"
        /\ req' = [req EXCEPT ![r].pc = "done", ![r].failed = "access_set",
                              ![r].status = response.status,
                              ![r].detail = response.detail]
        /\ UNCHANGED <<users, pending, cache, now, nticks, last>>

\* _store_refresh_token: redis.set succeeds, and the handler returns
\* {"access_token": token, "token_type": "bearer"}
LoginStoreRefresh(r) ==
    /\ req[r].kind = "login"
    /\ req[r].pc = "store_refresh"
    /\ cache' = redis_set(cache, refresh_key(uuid_str(req[r].user_id)),
                          req[r].refresh_token, req[r].refresh_token_expires,
                          now, r)
    /\ req' = [req EXCEPT ![r].pc = "done", ![r].status = 200,
                          ![r].detail = "bearer",
                          ![r].access_token = req[r].token]
    /\ UNCHANGED <<users, pending, now, nticks, last>>

\* LoginStoreRefreshError with the error logged and not raised
LoginStoreRefreshErrorSwallowed(r) ==
    /\ req[r].kind = "login"
    /\ req[r].pc = "store_refresh"
    /\ req' = [req EXCEPT ![r].pc = "done", ![r].failed = "refresh_set",
                          ![r].status = 200, ![r].detail = "bearer",
                          ![r].access_token = req[r].token]
    /\ UNCHANGED <<users, pending, cache, now, nticks, last>>

\* _store_refresh_token: redis.set raises
LoginStoreRefreshError(r) ==
    LET response == login_except(store_except(Raised("RedisError")))
    IN  /\ req[r].kind = "login"
        /\ req[r].pc = "store_refresh"
        /\ req' = [req EXCEPT ![r].pc = "done", ![r].failed = "refresh_set",
                              ![r].status = response.status,
                              ![r].detail = response.detail]
        /\ UNCHANGED <<users, pending, cache, now, nticks, last>>

----------------------------------------------------------------------------
(* get_current_user, and the users endpoint that depends on it *)

\* what the cache holds under access_token:<id claim of token>, relative
\* to the token itself
CacheHolds(token) ==
    IF "id" \notin DOMAIN token.claims THEN "none"
    ELSE LET held == {e.value : e \in {x \in cache :
                          x.key = access_key(token.claims.id)}}
         IN  IF held = {} THEN "none"
             ELSE IF token \in held THEN "same" ELSE "other"

\* get_current_user that also wants the token to be the cached one
get_current_user_checks_cache(token, t) ==
    LET decoded == jwt_decode(token, SECRET_KEY, t)
        payload == decoded.payload
    IN  IF decoded.error = "ExpiredSignatureError"
        THEN [status |-> 401, detail |-> "Signature has expired",
              user |-> NoClaims]
        ELSE IF decoded.error = "JWTError" \/ CacheHolds(token) # "same"
        THEN [status |-> 401, detail |-> "Invalid authentication credentials",
              user |-> NoClaims]
        ELSE IF "sub" \notin DOMAIN payload \/ "id" \notin DOMAIN payload
        THEN [status |-> 401, detail |-> "Invalid authentication credentials",
              user |-> NoClaims]
        ELSE [status |-> 200, detail |-> "",
              user |-> [username |-> payload.sub, id |-> payload.id]]

get_current_user(token, t) ==
    LET decoded == jwt_decode(token, SECRET_KEY, t)
        payload == decoded.payload
    IN  IF decoded.error = "ExpiredSignatureError"
        THEN [status |-> 401, detail |-> "Signature has expired",
              user |-> NoClaims]
        ELSE IF decoded.error = "JWTError"
        THEN [status |-> 401, detail |-> "Invalid authentication credentials",
              user |-> NoClaims]
        ELSE IF "sub" \notin DOMAIN payload \/ "id" \notin DOMAIN payload
        THEN [status |-> 401, detail |-> "Invalid authentication credentials",
              user |-> NoClaims]
        ELSE [status |-> 200, detail |-> "",
              user |-> [username |-> payload.sub, id |-> payload.id]]

\* the claims of a token without claim k
Without(claims, k) == [c \in DOMAIN claims \ {k} |-> claims[c]]

\* the access tokens the service has handed out in a 200 response
Issued == {req[r].access_token : r \in {q \in Done : req[q].status = 200}}

\* what a client may send as a bearer token: a token it was given, the same
\* claims signed with another key, or signed claims lacking sub or id
Presentable ==
    Issued
      \cup {[t EXCEPT !.key = OTHER_KEY] : t \in Issued}
      \cup {[t EXCEPT !.claims = Without(@, "sub")] : t \in Issued}
      \cup {[t EXCEPT !.claims = Without(@, "id")] : t \in Issued}

\* GET /users/ with a bearer token: user() returns what get_current_user
\* resolved; `last` records the request and its response.
GetCurrentUser(token) ==
    LET res == get_current_user(token, now)
    IN  /\ last' = [token |-> token, at |-> now, status |-> res.status,
                    detail |-> res.detail, user |-> res.user,
                    cached |-> CacheHolds(token)]
        /\ UNCHANGED <<users, pending, cache, now, nticks, req>>

----------------------------------------------------------------------------
(* The clock *)

Jumps == {1,
          timedelta_minutes(ACCESS_TOKEN_EXPIRE_MINUTES) * TicksPerSecond,
          timedelta_days(REFRESH_TOKEN_EXPIRE_DAYS) * TicksPerSecond}

\* time passes; the cache drops the entries whose expiry has been reached
Tick(d) ==
    /\ nticks < MaxTicks
    /\ now' = now + d
    /\ nticks' = nticks + 1
    /\ cache' = Alive(cache, now + d)
    /\ UNCHANGED <<users, pending, req, last>>

----------------------------------------------------------------------------

Next ==
    \/ \E r \in Slots, u \in Usernames, e \in Emails :
          CreateUserBegin(r, u, ChosenPassword(u), e)
    \/ \E r \in Slots : CreateUserInsert(r)
    \/ \E r \in Slots : CreateUserCommit(r)
    \/ \E r \in Slots : CreateUserError(r)
    \/ \E r \in Slots, u \in Usernames, p \in Passwords, db_ok \in BOOLEAN :
          LoginAuthenticate(r, u, p, db_ok)
    \/ \E r \in Slots : LoginStoreAccess(r)
    \/ \E r \in Slots : LoginStoreAccessError(r)
    \/ \E r \in Slots : LoginStoreRefresh(r)
    \/ \E r \in Slots : LoginStoreRefreshError(r)
    \/ \E t \in Presentable : GetCurrentUser(t)
    \/ \E d \in Jumps : Tick(d)

Spec == Init /\ [][Next]_vars

----------------------------------------------------------------------------
(* Registration: uniqueness *)

Registrations == {r \in Slots : req[r].kind = "create_user"}
Logins == {r \in Slots : req[r].kind = "login"}

\* two registrations ask for the same username or the same email
Share(r1, r2) == \/ req[r1].username = req[r2].username
                 \/ req[r1].email = req[r2].email

\* a row committed by a request other than r1 and r2 has the username or
\* the email that r asks for
Rival(r, r1, r2) ==
    \E u \in users : /\ u.id \notin {r1, r2}
                     /\ \/ u.username = req[r].username
                        \/ u.email = req[r].email

UniqueRows ==
    \A u1, u2 \in users :
        (u1.username = u2.username \/ u1.email = u2.email) => u1 = u2

\* C1: the Credential Store never holds two rows with the same username or
\* the same email; and of any two finished create_user requests that share
\* a username or an email, in whatever order their steps were taken, never
\* both succeed, and when neither met a persistence failure (500) and no
\* third request's row has taken what they ask for, exactly one got 201
\* 'User created successfully' and the other 400 'User already exists'.
C1_UniqueRegistration ==
    /\ UniqueRows
    /\ \A r1, r2 \in Registrations \cap Done :
          (r1 # r2 /\ Share(r1, r2)) =>
             /\ ~(req[r1].status = 201 /\ req[r2].status = 201)
             /\ ( /\ req[r1].status # 500 /\ req[r2].status # 500
                  /\ ~Rival(r1, r1, r2) /\ ~Rival(r2, r1, r2) )
                => \E w \in {r1, r2} : \A l \in {r1, r2} \ {w} :
                      /\ req[w].status = 201
                      /\ req[w].detail = "User created successfully"
                      /\ req[l].status = 400
                      /\ req[l].detail = "User already exists"

\* Two registrations of one username with different emails ran
\* interleaved: the one that arrived first lost to the one that arrived
\* second, and nothing else was registered.
C1_Witness ==
    \E r1, r2 \in Registrations \cap Done :
        /\ r1 < r2
        /\ req[r1].username = req[r2].username
        /\ req[r1].email # req[r2].email
        /\ req[r1].status = 400
        /\ req[r2].status = 201
        /\ Cardinality(users) = 1


----------------------------------------------------------------------------
(* Registration: a failed call adds nothing *)

C7_Inv ==
    \A r \in Registrations \cap Done :
        req[r].status # 201 =>
            /\ req[r].status \in {400, 500}
            /\ req[r].status = 400 =>
                  /\ req[r].detail = "User already exists"
                  /\ req[r].failed = ""
                  /\ \E u \in users : /\ u.id # r
                                      /\ \/ u.username = req[r].username
                                         \/ u.email = req[r].email
            /\ req[r].status = 500 =>
                  /\ req[r].detail = "Internal server error"
                  /\ req[r].failed = "db"
            /\ \A u \in users : u.id # r
            /\ \A q \in pending : q.by # r

C7_Step ==
    \A r \in Slots :
        ( /\ req'[r] # req[r]
          /\ req'[r].kind = "create_user"
          /\ req'[r].status # 201 ) => users' = users

----------------------------------------------------------------------------
(* Login *)

\* the store holds a user of that name whose hash the password verifies
\* against / does not verify against
RightPassword(username, password) ==
    \E u \in users : /\ u.username = username
                     /\ bcrypt_verify(password, u.password)
WrongPassword(username, password) ==
    \E u \in users : /\ u.username = username
                     /\ ~bcrypt_verify(password, u.password)

\* the step in which login request r arrives and authenticates
LoginArrives(r) == req[r].kind = "idle" /\ req'[r].kind = "login"

AccessLifetime == timedelta_minutes(ACCESS_TOKEN_EXPIRE_MINUTES)
RefreshLifetime == timedelta_days(REFRESH_TOKEN_EXPIRE_DAYS)

C2_Inv ==
    \A r \in Logins \cap Done :
       /\ (req[r].failed = "" /\ req[r].user_id # 0) => req[r].status = 200
       /\ req[r].status = 200 =>
            \E u \in users :
               LET token == req[r].access_token
                   identity == [username |-> u.username, id |-> uuid_str(u.id)]
               IN  /\ u.username = req[r].username
                   /\ u.id = req[r].user_id
                   /\ bcrypt_verify(req[r].password, u.password)
                   /\ jwt_decode(token, SECRET_KEY, req[r].issued_at).payload
                        = [sub |-> u.username, id |-> uuid_str(u.id),
                           exp |-> timegm(req[r].issued_at) + AccessLifetime]
                   /\ timegm(now) <= token.claims.exp =>
                        get_current_user(token, now)
                          = [status |-> 200, detail |-> "", user |-> identity]
                   /\ (last.token = token /\ timegm(last.at) <= token.claims.exp)
                        => (last.status = 200 /\ last.user = identity)

C2_Step ==
    \A r \in Slots :
        ( /\ LoginArrives(r)
          /\ req'[r].failed = ""
          /\ RightPassword(req'[r].username, req'[r].password) )
        => (req'[r].pc = "store_access" /\ req'[r].user_id # 0)

\* C2: a login with the password that verifies against the stored hash of
\* a registered user, when neither the store nor the cache fails, ends
\* in 200; the access token of every 200 decodes to exactly sub = the
\* user's username, id = str(the user's id), exp = the issue time in whole
\* seconds (the codec's resolution) plus the access-token lifetime; and
\* get_current_user resolves that token to the same username and id at
\* every time up to exp.
C2_LoginIssuesToken == []C2_Inv /\ [][C2_Step]_vars

\* A login issued half a second into a second returned 200, and its token
\* was later accepted by get_current_user.
C2_Witness ==
    \E r \in Logins \cap Done :
        /\ req[r].status = 200
        /\ req[r].issued_at % TicksPerSecond # 0
        /\ last.token = req[r].access_token
        /\ last.at > req[r].issued_at
        /\ last.status = 200
        /\ last.user = [username |-> req[r].username,
                        id |-> uuid_str(req[r].user_id)]

C3_Inv ==
    \A r \in Logins :
        WrongPassword(req[r].username, req[r].password) =>
            /\ req[r].pc = "done"
            /\ req[r].status = 401
            /\ req[r].access_token = NoToken
            /\ \A e \in cache : e.by # r

C3_Step ==
    \A r \in Slots :
        ( /\ LoginArrives(r)
          /\ WrongPassword(req'[r].username, req'[r].password) )
        => /\ req'[r].pc = "done"
           /\ req'[r].status = 401
           /\ cache' = cache

\* C3: a login whose password does not verify against the stored hash of
\* the named user ends, in the step it arrives in, with 401, and that step
\* leaves the whole Token Cache as it was; such a request never reaches the
\* cache writes and no cache entry is ever written by it.
C3_WrongPasswordWritesNothing == []C3_Inv /\ [][C3_Step]_vars

\* A login with a wrong password got 401 while the cache held the access
\* and the refresh token of that user, written by another login.
C3_Witness ==
    \E r \in Logins \cap Done, u \in users :
        /\ u.username = req[r].username
        /\ ~bcrypt_verify(req[r].password, u.password)
        /\ req[r].status = 401
        /\ \E e \in cache : e.key = access_key(uuid_str(u.id)) /\ e.by # r
        /\ \E e \in cache : e.key = refresh_key(uuid_str(u.id)) /\ e.by # r

C4_Inv ==
    \A r \in Logins \cap Done :
        /\ req[r].status # 404
        /\ req[r].status = 401 =>
              /\ req[r].detail = "Incorrect username or password"
              /\ req[r].access_token = NoToken

C4_Step ==
    \A r \in Slots :
        (LoginArrives(r) /\ QueryByUsername(req'[r].username) = {})
        => /\ req'[r].pc = "done"
           /\ req'[r].status = 401
           /\ req'[r].detail = "Incorrect username or password"

\* C4: a login for a username that is not in the Credential Store ends
\* with 401 'Incorrect username or password'; no login ever ends with 404;
\* and every 401 of a login, for a missing user or for a wrong password,
\* carries that same detail and no token.
C4_MissingUserIsUnauthorized == []C4_Inv /\ [][C4_Step]_vars

\* One login named a user that was never registered, another gave a wrong
\* password for a registered user, and both got the same 401.
C4_Witness ==
    \E r1, r2 \in Logins \cap Done :
        /\ QueryByUsername(req[r1].username) = {}
        /\ req[r1].failed = ""
        /\ WrongPassword(req[r2].username, req[r2].password)
        /\ req[r1].status = 401
        /\ req[r2].status = req[r1].status
        /\ req[r2].detail = req[r1].detail

----------------------------------------------------------------------------
(* Token verification *)

Verified == last.status # 0
Signed(token) == token.key = SECRET_KEY
Expired(token, at) ==
    "exp" \in DOMAIN token.claims /\ token.claims.exp < timegm(at)
Complete(token) == {"sub", "id"} \subseteq DOMAIN token.claims

\* C5: get_current_user answers 200 or 401, and 200 only for a correctly
\* signed, unexpired token with sub and id.  A correctly signed token
\* presented after its exp gets 'Signature has expired'; a token signed
\* with another key gets 'Invalid authentication credentials', expired or
\* not; a correctly signed, unexpired token lacking sub or id gets
\* 'Invalid authentication credentials'.
C5_RejectionReasons ==
    Verified =>
        /\ last.status \in {200, 401}
        /\ last.status = 200 =>
              /\ Signed(last.token)
              /\ ~Expired(last.token, last.at)
              /\ Complete(last.token)
        /\ (Signed(last.token) /\ Expired(last.token, last.at)) =>
              /\ last.status = 401
              /\ last.detail = "Signature has expired"
        /\ ~Signed(last.token) =>
              /\ last.status = 401
              /\ last.detail = "Invalid authentication credentials"
        /\ ( /\ Signed(last.token)
             /\ ~Expired(last.token, last.at)
             /\ ~Complete(last.token) ) =>
              /\ last.status = 401
              /\ last.detail = "Invalid authentication credentials"

\* A token signed with another key was presented after its exp and was
\* refused with the generic reason.
C5_Witness ==
    /\ Verified
    /\ last.token.key = OTHER_KEY
    /\ Expired(last.token, last.at)
    /\ last.status = 401
    /\ last.detail = "Invalid authentication credentials"

C8_Inv ==
    Verified =>
        /\ get_current_user(last.token, last.at)
             = [status |-> last.status, detail |-> last.detail,
                user |-> last.user]
        /\ ( /\ Signed(last.token)
             /\ ~Expired(last.token, last.at)
             /\ Complete(last.token) ) =>
              /\ last.status = 200
              /\ last.user = [username |-> last.token.claims.sub,
                              id |-> last.token.claims.id]

C8_Step == last' # last => UNCHANGED <<users, pending, cache>>

\* C8: the answer get_current_user gave for a token at a time is the answer
\* it gives for that token and time in every later state of the Token
\* Cache and the Credential Store; a correctly signed, unexpired token with
\* sub and id is accepted whatever the cache holds for its user; and the
\* call changes neither the cache nor the store.
C8_VerificationIgnoresCache == []C8_Inv /\ [][C8_Step]_vars

\* A token was accepted while the cache held, under its user's access key,
\* the different token of a later login.
C8_Witness ==
    /\ Verified
    /\ last.status = 200
    /\ last.cached = "other"

----------------------------------------------------------------------------
(* Token Cache *)

UserKeys(id) == {access_key(uuid_str(id)), refresh_key(uuid_str(id))}

C6_Inv ==
    /\ \A e1, e2 \in cache : e1.key = e2.key => e1 = e2
    /\ \A r \in Logins \cap Done :
          req[r].status = 200 =>
             \A q \in req[r].before, e \in cache : e.by # q

C6_Step ==
    \A r \in Slots :
       /\ (req[r].pc = "store_access" /\ req'[r].pc = "store_refresh") =>
            \A e \in cache' :
               e.key = access_key(uuid_str(req[r].user_id)) =>
                  (e.value = req[r].token /\ e.by = r)
       /\ (req[r].pc = "store_refresh" /\ req'[r].status = 200) =>
            \A e \in cache' :
               e.key = refresh_key(uuid_str(req[r].user_id)) =>
                  (e.value = req[r].refresh_token /\ e.by = r)

\* C6: the Token Cache never holds two entries under one key, so at most
\* one access and one refresh token per user id; each cache write of a
\* login leaves under its key the token that login minted and nothing
\* else; and once a login of a user has returned 200, no entry written by
\* a login of that user that had returned 200 before this one arrived is
\* in the cache.
C6_OneTokenPerUser == []C6_Inv /\ [][C6_Step]_vars

\* A second login of a user, arriving after the first had returned, minted
\* other tokens, and the cache holds the second login's two tokens.
C6_Witness ==
    \E r \in Logins \cap Done, q \in Logins \cap Done :
        /\ req[r].status = 200
        /\ q \in req[r].before
        /\ req[q].token # req[r].token
        /\ \A k \in UserKeys(req[r].user_id) :
              \E e \in cache : e.key = k /\ e.by = r

\* C9: a login in which the cache write of _store_token or of
\* _store_refresh_token failed ended with 500 and returned no access
\* token.
C9_CacheFailureIsInternal ==
    \A r \in Logins \cap Done :
        req[r].failed \in {"access_set", "refresh_set"} =>
            /\ req[r].status = 500
            /\ req[r].access_token = NoToken

\* One login failed at the access-token write and another at the
\* refresh-token write.
C9_Witness ==
    \E r1, r2 \in Logins \cap Done :
        /\ req[r1].failed = "access_set"
        /\ req[r2].failed = "refresh_set"
        /\ req[r1].status = 500
        /\ req[r2].status = 500

C10_Inv ==
    \A e \in cache :
        LET r == e.by
            minted == IF e.key[1] = "access_token"
                      THEN req[r].token ELSE req[r].refresh_token
            lifetime == IF e.key[1] = "access_token"
                        THEN AccessLifetime ELSE RefreshLifetime
        IN  /\ e.key \in UserKeys(req[r].user_id)
            /\ e.value = minted
            /\ e.ex = lifetime
            /\ e.value.claims.exp = timegm(req[r].issued_at) + e.ex
            /\ e.expireAt >= e.value.claims.exp * TicksPerSecond

C10_Step ==
    \A e \in cache :
        (\A x \in cache' : x.key # e.key) =>
            timegm(now') >= e.value.claims.exp

\* C10: every cache entry was written with a TTL equal to the lifetime
\* added to the issue time (in whole seconds) to make the exp claim of the
\* token it holds: the access-token lifetime under access_token:<user_id>,
\* the refresh-token lifetime under refresh_token:<user_id>; and a key
\* leaves the cache only when the time of that exp claim has been reached.
C10_TtlIsTokenLifetime == []C10_Inv /\ [][C10_Step]_vars

\* The access token of a login has reached its exp and left the cache,
\* while the refresh token of the same login is still cached.
C10_Witness ==
    \E r \in Logins \cap Done :
        /\ req[r].status = 200
        /\ timegm(now) >= req[r].token.claims.exp
        /\ \A e \in cache : e.key # access_key(uuid_str(req[r].user_id))
        /\ \E e \in cache : /\ e.key = refresh_key(uuid_str(req[r].user_id))
                             /\ e.by = r

----------------------------------------------------------------------------
(* C11 *)

\* every token the service has minted or cached
Minted ==
    ({req[r].token : r \in Logins} \cup {req[r].refresh_token : r \in Logins}
        \cup {e.value : e \in cache}) \ {NoToken}

\* the password column of row u is the salted hash of the password that
\* the request which made the row submitted
HashOfSubmitted(u) ==
    /\ req[u.id].kind = "create_user"
    /\ u.password.scheme = "bcrypt"
    /\ u.password.salt # 0
    /\ bcrypt_verify(req[u.id].password, u.password)
    /\ \A p \in Passwords \ {req[u.id].password} :
          ~bcrypt_verify(p, u.password)
    /\ \A v \in (users \cup pending) :
          v.id # u.id => v.password.salt # u.password.salt

\* the claims of a token are the username, the user id and the expiry
ClaimsArePublic(token) ==
    /\ DOMAIN token.claims = {"sub", "id", "exp"}
    /\ token.claims.sub \in Usernames
    /\ \E i \in Slots : token.claims.id = uuid_str(i)
    /\ token.claims.exp \in Nat

\* the body of the response to request r holds a fixed text or the access
\* token, and nothing of the password or of a row's password column
ResponseIsPublic(r) ==
    /\ req[r].detail \in {"User created successfully", "User already exists",
                          "Internal server error",
                          "Incorrect username or password", "bearer"}
    /\ req[r].detail \notin Passwords
    /\ req[r].access_token \notin {u.password : u \in users \cup pending}
    /\ req[r].status = 200 =>
          /\ req[r].access_token = req[r].token
          /\ ClaimsArePublic(req[r].access_token)
    /\ req[r].status # 200 => req[r].access_token = NoToken

\* C11: the password column of every row of the Credential Store, committed
\* or pending, is the salted hash of the password submitted at registration
\* and never the plaintext; the responses of create_user and of
\* login_for_access_token carry a fixed text or the access token, the users
\* endpoint returns the username and the id only, and the claims of every
\* token are sub, id and exp: none of them carries the password or the
\* stored hash.
C11_PasswordHashedAndPrivate ==
    /\ \A u \in users \cup pending : HashOfSubmitted(u)
    /\ \A r \in Done : ResponseIsPublic(r)
    /\ \A token \in Minted : ClaimsArePublic(token)
    /\ last.detail \notin Passwords
    /\ last.status = 200 =>
          /\ DOMAIN last.user = {"username", "id"}
          /\ last.user.username \in Usernames
          /\ \E i \in Slots : last.user.id = uuid_str(i)

\* A registered user has logged in with the registered password and the
\* users endpoint has returned that user for the token of the login.
C11_Witness ==
    \E u \in users :
        \E r \in LoggedIn(u.id) :
            /\ req[r].password = req[u.id].password
            /\ last.status = 200
            /\ last.token = req[r].access_token
            /\ last.user = [username |-> u.username, id |-> uuid_str(u.id)]

----------------------------------------------------------------------------
(* C12 *)

\* a login of user `id` has been authenticated and has not yet returned
InProgress(id) ==
    \E r \in Logins : /\ req[r].pc \in {"store_access", "store_refresh"}
                      /\ req[r].user_id = id

\* C12: whenever no login of user u is in progress and both
\* access_token:<u> and refresh_token:<u> are in the Token Cache, the two
\* cached tokens were minted, and written, by the same login request.
C12_CachedPairFromOneLogin ==
    \A id \in Slots :
        \A a, f \in cache :
            (/\ ~InProgress(id)
             /\ a.key = access_key(uuid_str(id))
             /\ f.key = refresh_key(uuid_str(id)))
                => /\ a.by = f.by
                   /\ a.value = req[a.by].token
                   /\ f.value = req[a.by].refresh_token

----------------------------------------------------------------------------
(* C13 *)

\* C13: a login_for_access_token call that has returned anything but 200
\* has left the Token Cache as it was: no entry of the cache was written
\* by it, also when its access-token set succeeded and its refresh-token
\* set failed.
C13_FailedLoginLeavesCacheUnchanged ==
    \A r \in Logins \cap Done :
        req[r].status # 200 => \A e \in cache : e.by # r
====
